---- MODULE Spec2Model ----
(***************************************************************************)
(* Model of locustfile.py: the StepLoadShape.tick load-shape function, the *)
(* BasicUser tasks that build requests, and the on_test_stop listener.     *)
(***************************************************************************)
EXTENDS Integers, Sequences, FiniteSets, TLC

VARIABLES step_duration, step_users, max_steps, hold_steps,
          run_time, result, memo,
          request,
          runner, stats, output, raised

shape_vars == <<step_duration, step_users, max_steps, hold_steps>>
tick_vars  == <<run_time, result, memo>>
hook_vars  == <<runner, stats, output, raised>>
vars == <<step_duration, step_users, max_steps, hold_steps,
          run_time, result, memo, request, runner, stats, output, raised>>

(***************************************************************************)
(* Bounds of the model.                                                    *)
(***************************************************************************)
MaxDur == 2
MaxUsers == 10
MaxSteps == 2
MaxHold == 1
MaxOverrun == 2
MaxAdvance == 2
AlphabetSize == 2
MaxId == 2
MaxEpoch == 1
MaxRequests == 6
MaxAvg == 2

(***************************************************************************)
(* Class attributes of StepLoadShape and literals of the tasks.            *)
(***************************************************************************)
DefaultStepDuration == 60
DefaultStepUsers == 20
DefaultMaxSteps == 6
DefaultHoldSteps == 2
MaxPage == 100

Max(a, b) == IF a >= b THEN a ELSE b

(***************************************************************************)
(* Return values of tick: Python None, or the pair (target_users,          *)
(* spawn_rate).  Unset is the value of `result` before the first call.     *)
(***************************************************************************)
None == [kind |-> "None", target_users |-> 0, spawn_rate |-> 0]
Unset == [kind |-> "unset", target_users |-> 0, spawn_rate |-> 0]
Pair(target_users, spawn_rate) ==
    [kind |-> "pair", target_users |-> target_users, spawn_rate |-> spawn_rate]

(***************************************************************************)
(* StepLoadShape.tick, lines 75-92.  int(x // d) and int(x / 5) are floor  *)
(* division for the non-negative operands the model draws.                 *)
(***************************************************************************)
ramp_up_zero_based(rt, sd, su) ==
    LET current_step == rt \div sd
        target_users == current_step * su
        spawn_rate == Max(1, su \div 5)
    IN  Pair(target_users, spawn_rate)

ramp_up(rt, sd, su) ==
    LET current_step == (rt \div sd) + 1
        target_users == current_step * su
        spawn_rate == Max(1, su \div 5)
    IN  Pair(target_users, spawn_rate)

hold_at_peak_no_floor(su, ms) ==
    LET target_users == ms * su
        spawn_rate == su \div 5
    IN  Pair(target_users, spawn_rate)

hold_at_peak(su, ms) ==
    LET target_users == ms * su
        spawn_rate == Max(1, su \div 5)
    IN  Pair(target_users, spawn_rate)

tick_stop_inclusive(rt, sd, su, ms, hs) ==
    LET total_ramp_time == sd * ms
    IN  IF rt >= total_ramp_time + (hs * sd)
        THEN None
        ELSE IF rt <= total_ramp_time
             THEN ramp_up(rt, sd, su)
             ELSE hold_at_peak(su, ms)

tick_stop_once(rt, sd, su, ms, hs) ==
    LET total_ramp_time == sd * ms
    IN  IF rt = total_ramp_time + (hs * sd) + 1
        THEN None
        ELSE IF rt <= total_ramp_time
             THEN ramp_up(rt, sd, su)
             ELSE hold_at_peak(su, ms)

tick(rt, sd, su, ms, hs) ==
    LET total_ramp_time == sd * ms
    IN  IF rt > total_ramp_time + (hs * sd)
        THEN None
        ELSE IF rt <= total_ramp_time
             THEN ramp_up(rt, sd, su)
             ELSE hold_at_peak(su, ms)

(***************************************************************************)
(* Configurations: the class attributes as written, and small settings of  *)
(* the four attributes (a subclass or an edited file).                     *)
(***************************************************************************)
DefaultConfig ==
    <<DefaultStepDuration, DefaultStepUsers, DefaultMaxSteps, DefaultHoldSteps>>
SmallConfigs == (1..MaxDur) \X (0..MaxUsers) \X (0..MaxSteps) \X (0..MaxHold)
Configs == SmallConfigs \cup {DefaultConfig}

\* get_run_time() is read in whole seconds, from 0 to MaxOverrun seconds
\* past the time after which tick returns None.
StopTime == (step_duration * max_steps) + (hold_steps * step_duration)
Horizon == StopTime + MaxOverrun

Configured(c) ==
    /\ step_duration = c[1]
    /\ step_users = c[2]
    /\ max_steps = c[3]
    /\ hold_steps = c[4]

IsDefault == <<step_duration, step_users, max_steps, hold_steps>> = DefaultConfig

(***************************************************************************)
(* BasicUser tasks.  An f-string path or name is the literal part and the  *)
(* formatted argument; str(n) is the decimal digits of n.                  *)
(***************************************************************************)
Digits == <<"0", "1", "2", "3", "4", "5", "6", "7", "8", "9">>

RECURSIVE str(_)
str(n) == IF n < 10 THEN <<Digits[n + 1]>>
          ELSE Append(str(n \div 10), Digits[(n % 10) + 1])

RECURSIVE Strings(_)
Strings(n) == IF n = 0 THEN {<<>>}
              ELSE {Append(s, c) : s \in Strings(n - 1), c \in 1..AlphabetSize}

random_string(n) == Strings(n)

Text(literal, arg) == [literal |-> literal, arg |-> arg]

NoRequest ==
    [task |-> "none", method |-> "", path |-> Text("", <<>>),
     params |-> <<>>, json |-> <<>>, name |-> Text("", <<>>), timeout |-> 0]

Request(task, method, path, params, json, name, timeout) ==
    [task |-> task, method |-> method, path |-> path, params |-> params,
     json |-> json, name |-> name, timeout |-> timeout]

UserIdle == request = NoRequest

get_root ==
    /\ UserIdle
    /\ request' = Request("get_root", "GET", Text("/get", <<>>), <<>>, <<>>,
                          Text("GET /get", <<>>), 30)
    /\ UNCHANGED <<shape_vars, tick_vars, hook_vars>>

get_with_query ==
    /\ UserIdle
    /\ \E q \in random_string(6), page \in 1..MaxPage :
         request' = Request("get_with_query", "GET", Text("/get", <<>>),
                            <<[q |-> q, page |-> page]>>, <<>>,
                            Text("GET /get?q=..", <<>>), 30)
    /\ UNCHANGED <<shape_vars, tick_vars, hook_vars>>

delayed_choices_from_zero == {0, 1, 2, 3}

delayed_choices == {1, 2, 3}

delayed_request(delay) ==
    Request("delayed", "GET", Text("/delay/", str(delay)), <<>>, <<>>,
            Text("GET /delay/", str(delay)), 60)

delayed ==
    /\ UserIdle
    /\ \E delay \in delayed_choices : request' = delayed_request(delay)
    /\ UNCHANGED <<shape_vars, tick_vars, hook_vars>>

stream ==
    /\ UserIdle
    /\ request' = Request("stream", "GET", Text("/stream/20", <<>>), <<>>, <<>>,
                          Text("GET /stream/20", <<>>), 60)
    /\ UNCHANGED <<shape_vars, tick_vars, hook_vars>>

post_json ==
    /\ UserIdle
    /\ \E id \in 1..MaxId, name \in random_string(10), timestamp \in 0..MaxEpoch :
         request' = Request("post_json", "POST", Text("/post", <<>>), <<>>,
                            <<[id |-> id, name |-> name, timestamp |-> timestamp]>>,
                            Text("POST /post (json)", <<>>), 30)
    /\ UNCHANGED <<shape_vars, tick_vars, hook_vars>>

status_check ==
    /\ UserIdle
    /\ \E i \in 1..5 :
         LET code == <<200, 200, 200, 404, 500>>[i]
         IN  request' = Request("status_check", "GET", Text("/status/", str(code)),
                                <<>>, <<>>, Text("GET /status/", str(code)), 30)
    /\ UNCHANGED <<shape_vars, tick_vars, hook_vars>>

\* wait_time = between(1, 5): the think time after a task, after which the
\* user is ready for its next task.
wait_time ==
    /\ ~UserIdle
    /\ \E seconds \in 1..5 : request' = NoRequest
    /\ UNCHANGED <<shape_vars, tick_vars, hook_vars>>

(***************************************************************************)
(* on_test_stop, lines 96-104.  `runner` is environment.runner; `stats`    *)
(* is runner.stats.total when the runner exists.                           *)
(***************************************************************************)
NoStats == [num_requests |-> 0, num_failures |-> 0, avg_response_time |-> 0]

StatsSet ==
    {s \in [num_requests : 0..MaxRequests, num_failures : 0..MaxRequests,
             avg_response_time : 0..MaxAvg] : s.num_failures <= s.num_requests}

HookIdle ==
    /\ runner = "Runner"
    /\ stats = NoStats
    /\ output = <<>>
    /\ raised = "none"

Line(text, value) == [text |-> text, value |-> value]

on_test_stop ==
    /\ output = <<>>
    /\ raised = "none"
    /\ LET header == Line("Test finished. Summary:", 0)
           detail == <<Line("  Total requests: ", stats.num_requests),
                       Line("  Failures: ", stats.num_failures),
                       Line("  Avg response time (ms): ", stats.avg_response_time)>>
       IN  IF runner = "None"
           THEN \* line 99: environment.runner.stats on None
                /\ output' = <<header>>
                /\ raised' = "AttributeError"
           ELSE /\ output' = IF runner # "None"
                             THEN <<header>> \o detail
                             ELSE <<header>>
                /\ raised' = "none"
    /\ UNCHANGED <<shape_vars, tick_vars, request, runner, stats>>

(***************************************************************************)
(* Calls of tick.  Tick passes any run time up to the horizon; Poll is the *)
(* harness reading a clock that never goes back.  TickAgain also lets the  *)
(* caller keep the outcome of the call before, so that two calls of one    *)
(* run can be compared.                                                    *)
(***************************************************************************)
ShapeIdle ==
    /\ Configured(DefaultConfig)
    /\ run_time = 0
    /\ result = Unset
    /\ memo = [run_time |-> 0, result |-> Unset]

CallStateful(rt) ==
    /\ run_time' = rt
    /\ result' = tick(rt, step_duration, step_users, max_steps, hold_steps)
    /\ hold_steps' = IF result' = None \/ hold_steps = 0 THEN hold_steps
                     ELSE hold_steps - 1
    /\ UNCHANGED <<step_duration, step_users, max_steps>>

Call(rt) ==
    /\ run_time' = rt
    /\ result' = tick(rt, step_duration, step_users, max_steps, hold_steps)
    /\ UNCHANGED shape_vars

Tick ==
    /\ \E rt \in 0..Horizon : Call(rt)
    /\ UNCHANGED <<memo, request, hook_vars>>

TickAgain ==
    /\ \E rt \in 0..Horizon : Call(rt)
    /\ \/ memo' = memo
       \/ result # Unset /\ memo' = [run_time |-> run_time, result |-> result]
    /\ UNCHANGED <<request, hook_vars>>

Poll ==
    /\ \E d \in 0..MaxAdvance :
         /\ run_time + d <= Horizon
         /\ Call(run_time + d)
    /\ UNCHANGED <<memo, request, hook_vars>>

(***************************************************************************)
(* Specifications.                                                         *)
(***************************************************************************)
Init ==
    /\ \E c \in Configs : Configured(c)
    /\ run_time = 0
    /\ result = Unset
    /\ memo = [run_time |-> 0, result |-> Unset]
    /\ UserIdle
    /\ HookIdle

Next == Tick

Spec == Init /\ [][Next]_vars

InitPure ==
    /\ \E c \in SmallConfigs : Configured(c)
    /\ run_time = 0
    /\ result = Unset
    /\ memo = [run_time |-> 0, result |-> Unset]
    /\ UserIdle
    /\ HookIdle

NextPure == TickAgain

SpecPure == InitPure /\ [][NextPure]_vars

NextPoll == Poll

SpecPoll == Init /\ [][NextPoll]_vars /\ WF_vars(Poll)

InitUser == ShapeIdle /\ UserIdle /\ HookIdle

NextUser ==
    \/ get_root
    \/ get_with_query
    \/ delayed
    \/ stream
    \/ post_json
    \/ status_check
    \/ wait_time

SpecUser == InitUser /\ [][NextUser]_vars

InitHook ==
    /\ ShapeIdle
    /\ UserIdle
    /\ output = <<>>
    /\ raised = "none"
    /\ \/ runner = "None" /\ stats = NoStats
       \/ runner = "Runner" /\ stats \in StatsSet

NextHook == on_test_stop

SpecHook == InitHook /\ [][NextHook]_vars

(***************************************************************************)
(* Properties checked against the model.                                   *)
(***************************************************************************)
Called == result # Unset

\* C1: with the class attributes as written, tick returns (120, 4) for every
\* run time from 360 through 479.
C1_HoldPhase ==
    (IsDefault /\ Called /\ run_time \in 360..479) => result = Pair(120, 4)

\* C2: with the class attributes as written, tick at run time 480 returns
\* None.
C2_TerminateAt480 ==
    (IsDefault /\ Called /\ run_time = 480) => result = None

\* C2 (amended): with the class attributes as written, tick at run time 480
\* still returns the hold pair (120, 4), and returns None at every run time
\* above 480.
C2_TerminateAfter480 ==
    (IsDefault /\ Called) =>
        /\ run_time = 480 => result = Pair(120, 4)
        /\ run_time > 480 => result = None

C2_Witness ==
    IsDefault /\ Called /\ run_time = 480 /\ result = Pair(120, 4)

\* C3: whenever tick returns a pair, target_users is at most
\* max_steps * step_users, and at run time step_duration * max_steps it is
\* exactly step_users * max_steps.
C3_NeverAbovePeak ==
    result.kind = "pair" =>
        /\ result.target_users <= max_steps * step_users
        /\ run_time = step_duration * max_steps =>
               result.target_users = step_users * max_steps

C5_HookToleratesNoRunner ==
    (Len(output) > 0 /\ runner = "None") =>
        (raised = "none" /\ Len(output) = 1)

\* C6: if max_steps is 0 or step_users is 0, every pair tick returns has
\* target_users 0.
C6_ZeroConfig ==
    ((max_steps = 0 \/ step_users = 0) /\ result.kind = "pair") =>
        result.target_users = 0

\* C7: every pair tick returns, in the ramp-up and in the hold phase, has
\* spawn_rate = max(1, floor(step_users / 5)), which is at least 1 and the
\* same for any two calls whatever their run times.
C7_SpawnRate ==
    /\ result.kind = "pair" =>
           /\ result.spawn_rate = Max(1, step_users \div 5)
           /\ result.spawn_rate >= 1
    /\ (result.kind = "pair" /\ memo.result.kind = "pair") =>
           result.spawn_rate = memo.result.spawn_rate

C7_Witness ==
    /\ result.kind = "pair"
    /\ run_time > step_duration * max_steps
    /\ memo.result.kind = "pair"
    /\ memo.run_time <= step_duration * max_steps
    /\ step_users = 10
    /\ result.spawn_rate = 2

C9_Delayed ==
    request.task = "delayed" =>
        /\ request.path.literal = "/delay/"
        /\ request.path.arg \in {<<"1">>, <<"2">>, <<"3">>}
        /\ request.name.literal = "GET /delay/"
        /\ request.name.arg = request.path.arg

C9_Witness ==
    request.task = "delayed" /\ request.path.arg = <<"3">>

\* C10: polled with a run time that never decreases and keeps growing, tick
\* eventually returns None; every poll with run_time above
\* step_duration * max_steps + hold_steps * step_duration returns None, and
\* after a None no later poll returns a pair.
C10_Terminates ==
    /\ <>(result = None)
    /\ [](Called /\ run_time > StopTime => result = None)
    /\ [][result = None => result' = None]_vars

C10_Witness ==
    result = None /\ run_time > StopTime

====
